---------------------------- MODULE Spec2Model ----------------------------
(***************************************************************************)
(* Credential and session lifecycle of the backend (app/auth): accounts,   *)
(* bearer tokens, the logout blacklist and the password-reset code table.  *)
(* Time is counted in seconds, as time.time() and the JWT "exp" claim are. *)
(***************************************************************************)
EXTENDS Integers, Sequences, FiniteSets, TLC

VARIABLES
    users,        \* rows of the "users" table, in id order (id = position)
    profiles,     \* user_id of every profile document stored in MongoDB
    reset_codes,  \* the reset_codes dict, as its items in insertion order
    blacklist,    \* the blacklist set of logged-out token strings
    issued,       \* tokens handed out to clients so far
    now,          \* the wall clock, in seconds
    reqs,         \* in-flight reset_password requests (concurrent runs)
    regs,         \* in-flight register and social_login requests
    last          \* the response of the handler that ran last

vars == <<users, profiles, reset_codes, blacklist, issued, now, reqs, regs, last>>

-----------------------------------------------------------------------------
(* Bounds of the model *)

MaxTokens == 2
ResetTick == 600
MaxResetTime == 1200
TokenTick == 3600
MaxTokenTime == 7200

(* Values requests are drawn from *)

None == "None"
Emails == {"a@x.com"}
Phones == {"1"}
Identifiers == Emails \cup Phones
Passwords == {"secret1", "secret2"}
Codes == {"111111", "222222"}
Requests == {"r1", "r2"}

(* Program constants *)

RESET_CODE_TTL == 600
ACCESS_TOKEN_EXPIRE_MINUTES == 60
JWT_SECRET == "secret"

-----------------------------------------------------------------------------
(* Responses *)

Resp(op, arg, status, detail, out) ==
    [op |-> op, arg |-> arg, status |-> status, detail |-> detail, out |-> out]

-----------------------------------------------------------------------------
(* Password hasher and code generator *)

hash_password(plain) == "$hash$" \o plain

verify_password(plain, digest) == digest = hash_password(plain)

generate_verification_code == Codes

-----------------------------------------------------------------------------
(* Account directory *)

\* SQL equality: a NULL column matches nothing
ColEq(col, v) == col # None /\ col = v

Min(S) == CHOOSE x \in S : \A y \in S : x <= y

get_user_by_identifier_first(us, identifier) == IF us = <<>> THEN 0 ELSE 1

\* id of the first row whose email or phone is the identifier, 0 if none
get_user_by_identifier(us, identifier) ==
    LET m == {i \in 1..Len(us) :
                 ColEq(us[i].email, identifier) \/ ColEq(us[i].phone, identifier)}
    IN IF m = {} THEN 0 ELSE Min(m)

find_by_email_any(us, email) == IF us = <<>> THEN 0 ELSE 1

find_by_email(us, email) ==
    LET m == {i \in 1..Len(us) : ColEq(us[i].email, email)}
    IN IF m = {} THEN 0 ELSE Min(m)

find_by_phone(us, phone) ==
    LET m == {i \in 1..Len(us) : ColEq(us[i].phone, phone)}
    IN IF m = {} THEN 0 ELSE Min(m)

User(id, email, phone, hashed, role) ==
    [id |-> id, email |-> email, phone |-> phone,
     hashed_password |-> hashed, role |-> role]

-----------------------------------------------------------------------------
(* POST /auth/register *)

\* profiles_collection.insert_one is called without await: the insert runs
\* (or fails) in the driver's executor and the handler never sees its outcome
insert_profile(ps, user_id, mongo_ok) ==
    IF mongo_ok THEN ps \cup {user_id} ELSE ps

register_rollback(email, phone, pw, mongo_ok) ==
    LET out(status, detail) == Resp("register", email, status, detail, None)
    IN
    /\ UNCHANGED <<reset_codes, blacklist, issued, now, reqs, regs>>
    /\ IF email = None /\ phone = None
         THEN /\ last' = out(500, "Erreur interne : 400: Email ou telephone requis")
              /\ UNCHANGED <<users, profiles>>
       ELSE IF email # None /\ find_by_email(users, email) # 0
         THEN /\ last' = out(500, "Erreur interne : 400: Email deja enregistre")
              /\ UNCHANGED <<users, profiles>>
       ELSE IF phone # None /\ find_by_phone(users, phone) # 0
         THEN /\ last' = out(500, "Erreur interne : 400: Telephone deja enregistre")
              /\ UNCHANGED <<users, profiles>>
       ELSE IF ~mongo_ok
         THEN /\ last' = out(500, "Erreur interne : profil non cree")
              /\ UNCHANGED <<users, profiles>>
       ELSE /\ users' = Append(users,
                   User(Len(users) + 1, email, phone, hash_password(pw), "user"))
            /\ profiles' = insert_profile(profiles, Len(users) + 1, mongo_ok)
            /\ last' = Resp("register", email, 201,
                            "Utilisateur enregistre avec succes", Len(users) + 1)

register(email, phone, pw, mongo_ok) ==
    LET out(status, detail) == Resp("register", email, status, detail, None)
    IN
    /\ UNCHANGED <<reset_codes, blacklist, issued, now, reqs, regs>>
    /\ IF email = None /\ phone = None
         THEN /\ last' = out(500, "Erreur interne : 400: Email ou telephone requis")
              /\ UNCHANGED <<users, profiles>>
       ELSE IF email # None /\ find_by_email(users, email) # 0
         THEN /\ last' = out(500, "Erreur interne : 400: Email deja enregistre")
              /\ UNCHANGED <<users, profiles>>
       ELSE IF phone # None /\ find_by_phone(users, phone) # 0
         THEN /\ last' = out(500, "Erreur interne : 400: Telephone deja enregistre")
              /\ UNCHANGED <<users, profiles>>
       ELSE /\ users' = Append(users,
                   User(Len(users) + 1, email, phone, hash_password(pw), "user"))
            /\ profiles' = insert_profile(profiles, Len(users) + 1, mongo_ok)
            /\ last' = Resp("register", email, 201,
                            "Utilisateur enregistre avec succes", Len(users) + 1)

-----------------------------------------------------------------------------
(* The reset-code table *)

Attempt(identifier, code, expires, verified) ==
    [identifier |-> identifier, code |-> code,
     expires |-> expires, verified |-> verified]

NoEntry == Attempt(None, None, 0, FALSE)

\* position of the identifier's item in the dict, 0 if it has none
KeyPos(rc, identifier) ==
    LET m == {i \in 1..Len(rc) : rc[i].identifier = identifier}
    IN IF m = {} THEN 0 ELSE Min(m)

DictSet_append(rc, identifier, entry) == Append(rc, entry)

\* reset_codes[identifier] = entry: an existing key keeps its position
DictSet(rc, identifier, entry) ==
    IF KeyPos(rc, identifier) = 0
      THEN Append(rc, entry)
      ELSE [rc EXCEPT ![KeyPos(rc, identifier)] = entry]

\* reset_codes.pop(identifier, None)
DictPop(rc, identifier) ==
    SelectSeq(rc, LAMBDA e : e.identifier # identifier)

\* time.time() > entry["expires"]
is_expired_late(entry, t) == t > entry.expires + RESET_CODE_TTL

is_expired(entry, t) == t > entry.expires

FindByCode_last(rc, code) ==
    LET m == {i \in 1..Len(rc) : rc[i].code = code}
    IN IF m = {} THEN 0 ELSE CHOOSE x \in m : \A y \in m : y <= x

FindByCode_any(rc, code) == IF rc = <<>> THEN 0 ELSE 1

\* the scan of verify_code: first item whose code is the one supplied
FindByCode(rc, code) ==
    LET m == {i \in 1..Len(rc) : rc[i].code = code}
    IN IF m = {} THEN 0 ELSE Min(m)

FindVerified_last(rc) ==
    LET m == {i \in 1..Len(rc) : rc[i].verified}
    IN IF m = {} THEN 0 ELSE CHOOSE x \in m : \A y \in m : y <= x

\* the scan of reset_password: first item that is verified
FindVerified(rc) ==
    LET m == {i \in 1..Len(rc) : rc[i].verified}
    IN IF m = {} THEN 0 ELSE Min(m)

-----------------------------------------------------------------------------
(* utils/email.py: settings.mail_from is not a field of Settings (MAIL_FROM
   is), so building the message raises before anything is sent *)

send_email_async_raises == TRUE

-----------------------------------------------------------------------------
(* POST /auth/forgot-password *)

forgot_password_per_account(identifier, code) ==
    LET out(status, detail, c) == Resp("forgot_password", identifier, status, detail, c)
        is_email == identifier \in Emails
        db_user == get_user_by_identifier(users, identifier)
        others == SelectSeq(reset_codes,
                      LAMBDA e : \/ e.identifier = identifier
                                 \/ get_user_by_identifier(users, e.identifier)
                                       # db_user)
    IN
    /\ UNCHANGED <<users, profiles, blacklist, issued, now, reqs, regs>>
    /\ IF db_user = 0
         THEN /\ last' = out(404, "Utilisateur non trouve", None)
              /\ UNCHANGED reset_codes
         ELSE /\ reset_codes' = DictSet(others, identifier,
                     Attempt(identifier, code, now + RESET_CODE_TTL, FALSE))
              /\ IF is_email /\ send_email_async_raises
                   THEN last' = out(500, "Erreur interne", code)
                   ELSE last' = out(200, "Code de reinitialisation envoye", code)

forgot_password_send_first(identifier, code) ==
    LET out(status, detail, c) == Resp("forgot_password", identifier, status, detail, c)
        is_email == identifier \in Emails
    IN
    /\ UNCHANGED <<users, profiles, blacklist, issued, now, reqs, regs>>
    /\ IF get_user_by_identifier(users, identifier) = 0
         THEN /\ last' = out(404, "Utilisateur non trouve", None)
              /\ UNCHANGED reset_codes
       ELSE IF is_email /\ send_email_async_raises
         THEN /\ last' = out(500, "Erreur interne", code)
              /\ UNCHANGED reset_codes
         ELSE /\ reset_codes' = DictSet(reset_codes, identifier,
                     Attempt(identifier, code, now + RESET_CODE_TTL, FALSE))
              /\ last' = out(200, "Code de reinitialisation envoye", code)

forgot_password_keeps_flag(identifier, code) ==
    LET out(status, detail, c) == Resp("forgot_password", identifier, status, detail, c)
        is_email == identifier \in Emails
        was == KeyPos(reset_codes, identifier) # 0
                 /\ reset_codes[KeyPos(reset_codes, identifier)].verified
    IN
    /\ UNCHANGED <<users, profiles, blacklist, issued, now, reqs, regs>>
    /\ IF get_user_by_identifier(users, identifier) = 0
         THEN /\ last' = out(404, "Utilisateur non trouve", None)
              /\ UNCHANGED reset_codes
         ELSE /\ reset_codes' = DictSet(reset_codes, identifier,
                     Attempt(identifier, code, now + RESET_CODE_TTL, was))
              /\ IF is_email /\ send_email_async_raises
                   THEN last' = out(500, "Erreur interne", code)
                   ELSE last' = out(200, "Code de reinitialisation envoye", code)

forgot_password(identifier, code) ==
    LET out(status, detail, c) == Resp("forgot_password", identifier, status, detail, c)
        is_email == identifier \in Emails   \* '@' in data.identifier
    IN
    /\ UNCHANGED <<users, profiles, blacklist, issued, now, reqs, regs>>
    /\ IF get_user_by_identifier(users, identifier) = 0
         THEN /\ last' = out(404, "Utilisateur non trouve", None)
              /\ UNCHANGED reset_codes
         ELSE /\ reset_codes' = DictSet(reset_codes, identifier,
                     Attempt(identifier, code, now + RESET_CODE_TTL, FALSE))
              /\ IF is_email /\ send_email_async_raises
                   THEN last' = out(500, "Erreur interne", code)
                   ELSE last' = out(200, "Code de reinitialisation envoye", code)

-----------------------------------------------------------------------------
(* POST /auth/verify-code *)

verify_code(code) ==
    LET out(status, detail, id) == Resp("verify_code", code, status, detail, id)
        pos == FindByCode(reset_codes, code)
        found_identifier == reset_codes[pos].identifier
    IN
    /\ UNCHANGED <<users, profiles, blacklist, issued, now, reqs, regs>>
    /\ IF pos = 0
         THEN /\ last' = out(400, "Code invalide", None)
              /\ UNCHANGED reset_codes
       ELSE IF is_expired(reset_codes[pos], now)
         THEN /\ reset_codes' = DictPop(reset_codes, found_identifier)
              /\ last' = out(400, "Code expire", None)
       ELSE /\ reset_codes' = [reset_codes EXCEPT ![pos].verified = TRUE]
            /\ last' = out(200, "Code verifie avec succes", found_identifier)

-----------------------------------------------------------------------------
(* POST /auth/reset-password *)

SetPassword_noop(us, id, hashed) == us

SetPassword(us, id, hashed) == [us EXCEPT ![id].hashed_password = hashed]

\* one request served alone: the handler from its first line to its response
reset_password(newPassword) ==
    LET out(status, detail, id) == Resp("reset_password", newPassword, status, detail, id)
        pos == FindVerified(reset_codes)
        verified_identifier == reset_codes[pos].identifier
        db_user == get_user_by_identifier(users, verified_identifier)
    IN
    /\ UNCHANGED <<profiles, blacklist, issued, now, reqs, regs>>
    /\ IF pos = 0
         THEN /\ last' = out(400, "Aucun code verifie trouve", None)
              /\ UNCHANGED <<users, reset_codes>>
       ELSE IF is_expired(reset_codes[pos], now)
         THEN /\ reset_codes' = DictPop(reset_codes, verified_identifier)
              /\ last' = out(400, "Code expire", None)
              /\ UNCHANGED users
       ELSE IF db_user = 0
         THEN /\ last' = out(404, "Utilisateur non trouve", None)
              /\ UNCHANGED <<users, reset_codes>>
       ELSE /\ users' = SetPassword(users, db_user, hash_password(newPassword))
            /\ reset_codes' = DictPop(reset_codes, verified_identifier)
            /\ last' = out(200, "Mot de passe reinitialise avec succes",
                           verified_identifier)

-----------------------------------------------------------------------------
(* POST /auth/reset-password served concurrently: the event loop runs a
   handler up to its next await, so a request is suspended inside
   get_user_by_identifier (line 268) and inside db.commit (line 276) *)

InFlight(q) == q.pc \in {"lookup", "commit", "pop"}

\* the response is sent and the handler's locals are gone; the item the
\* request had found stays on record
Done(q, status) ==
    [pc |-> "done", verified_identifier |-> None, code_entry |-> q.code_entry,
     db_user |-> 0, newPassword |-> None, shared |-> q.shared, status |-> status]

\* lines 251-265: scan for a verified item, expiry check, then suspend
rp_begin(r, newPassword) ==
    LET out(status, detail) == Resp("reset_password", newPassword, status, detail, None)
        pos == FindVerified(reset_codes)
        verified_identifier == reset_codes[pos].identifier
    IN
    /\ reqs[r].pc = "idle"
    /\ UNCHANGED <<users, profiles, blacklist, issued, now, regs>>
    /\ IF pos = 0
         THEN /\ last' = out(400, "Aucun code verifie trouve")
              /\ reqs' = [reqs EXCEPT ![r] = Done(@, 400)]
              /\ UNCHANGED reset_codes
       ELSE IF is_expired(reset_codes[pos], now)
         THEN /\ reset_codes' = DictPop(reset_codes, verified_identifier)
              /\ last' = out(400, "Code expire")
              /\ reqs' = [reqs EXCEPT ![r] = Done(@, 400)]
       ELSE /\ reqs' = [reqs EXCEPT ![r] =
                  [pc |-> "lookup",
                   verified_identifier |-> verified_identifier,
                   code_entry |-> reset_codes[pos],
                   db_user |-> 0,
                   newPassword |-> newPassword,
                   \* another request holds the same, only verified item
                   shared |-> /\ Cardinality({i \in 1..Len(reset_codes) :
                                      reset_codes[i].verified}) = 1
                              /\ \E o \in Requests \ {r} :
                                    /\ InFlight(reqs[o])
                                    /\ reqs[o].code_entry = reset_codes[pos],
                   status |-> 0]]
            /\ UNCHANGED <<reset_codes, last>>

\* line 268: the SELECT runs while the request is suspended
rp_lookup(r) ==
    /\ reqs[r].pc = "lookup"
    /\ reqs' = [reqs EXCEPT ![r].pc = "commit",
                            ![r].db_user = get_user_by_identifier(
                                               users, reqs[r].verified_identifier)]
    /\ UNCHANGED <<users, profiles, reset_codes, blacklist, issued, now, regs, last>>

\* lines 270-276: 404 without an account, else the UPDATE is committed
rp_commit(r) ==
    /\ reqs[r].pc = "commit"
    /\ UNCHANGED <<profiles, reset_codes, blacklist, issued, now, regs>>
    /\ IF reqs[r].db_user = 0
         THEN /\ last' = Resp("reset_password", reqs[r].newPassword, 404,
                              "Utilisateur non trouve", None)
              /\ reqs' = [reqs EXCEPT ![r] = Done(@, 404)]
              /\ UNCHANGED users
         ELSE /\ users' = SetPassword(users, reqs[r].db_user,
                                      hash_password(reqs[r].newPassword))
              /\ reqs' = [reqs EXCEPT ![r].pc = "pop"]
              /\ UNCHANGED last

\* lines 278-281: drop the item of the identifier found at the start
rp_pop(r) ==
    /\ reqs[r].pc = "pop"
    /\ reset_codes' = DictPop(reset_codes, reqs[r].verified_identifier)
    /\ reqs' = [reqs EXCEPT ![r] = Done(@, 200)]
    /\ last' = Resp("reset_password", reqs[r].newPassword, 200,
                    "Mot de passe reinitialise avec succes",
                    reqs[r].verified_identifier)
    /\ UNCHANGED <<users, profiles, blacklist, issued, now, regs>>

-----------------------------------------------------------------------------
(* Token service (auth/jwt_handler.py). A token string is modelled by what
   it encodes: the claims and the key that signed them *)

Digits == <<"0", "1", "2", "3", "4", "5", "6", "7", "8", "9">>

RECURSIVE str(_)
\* Python's str() of a non-negative int
str(n) == IF n < 10 THEN Digits[n + 1]
          ELSE str(n \div 10) \o Digits[(n % 10) + 1]

Token(sub, role, user_id, exp, key) ==
    [sub |-> sub, role |-> role, user_id |-> user_id, exp |-> exp, key |-> key]

\* "exp" is added, and "sub" is overwritten with str(user_id) when the data
\* carry a user_id
create_access_token(data, t) ==
    Token(IF "user_id" \in DOMAIN data THEN str(data.user_id) ELSE data.sub,
          data.role, data.user_id,
          t + 60 * ACCESS_TOKEN_EXPIRE_MINUTES, JWT_SECRET)

\* jwt.decode: signature, then expiry (a token is expired once exp < now)
jwt_decode_ok(token, t) == token.key = JWT_SECRET /\ ~(token.exp < t)

\* what a handler holds when decoding returned None
NoPayload == Token(None, None, 0, 0, None)

\* the payload, or None for a bad signature, an expired token or no "sub"
decode_access_token(token, t) ==
    IF jwt_decode_ok(token, t) /\ token.sub # None /\ token.sub # ""
      THEN token ELSE NoPayload

verify_access_token(token, t) == decode_access_token(token, t)

\* the dependency of /auth/me: the payload of a token that verifies
jwt_get_current_user(token, t) == verify_access_token(token, t)

is_blacklisted_never(token, bl) == FALSE

\* token_str in blacklist
is_blacklisted(token, bl) == token \in bl

\* tokens a client can present: those it was given and one it forged
ForgedTokens == {Token("a@x.com", "user", 1, 60 * ACCESS_TOKEN_EXPIRE_MINUTES, "forged")}

Presentable == issued \cup ForgedTokens

-----------------------------------------------------------------------------
(* POST /auth/login *)

login_reveals(identifier, pw) ==
    LET db_user == get_user_by_identifier(users, identifier)
        u == users[db_user]
        token_subject == IF u.email # None THEN u.email ELSE u.phone
        access_token == create_access_token(
            [sub |-> token_subject, role |-> u.role, user_id |-> u.id], now)
    IN
    /\ UNCHANGED <<users, profiles, reset_codes, blacklist, now, reqs, regs>>
    /\ IF db_user = 0
         THEN /\ last' = Resp("login", identifier, 404, "Utilisateur non trouve", None)
              /\ UNCHANGED issued
       ELSE IF ~verify_password(pw, u.hashed_password)
         THEN /\ last' = Resp("login", identifier, 401,
                              "Identifiant ou mot de passe incorrect", None)
              /\ UNCHANGED issued
         ELSE /\ access_token \in issued \/ Cardinality(issued) < MaxTokens
              /\ issued' = issued \cup {access_token}
              /\ last' = Resp("login", identifier, 200, "bearer", access_token)

login(identifier, pw) ==
    LET db_user == get_user_by_identifier(users, identifier)
        u == users[db_user]
        token_subject == IF u.email # None THEN u.email ELSE u.phone
        access_token == create_access_token(
            [sub |-> token_subject, role |-> u.role, user_id |-> u.id], now)
    IN
    /\ UNCHANGED <<users, profiles, reset_codes, blacklist, now, reqs, regs>>
    /\ IF db_user = 0 \/ ~verify_password(pw, u.hashed_password)
         THEN /\ last' = Resp("login", identifier, 401,
                              "Identifiant ou mot de passe incorrect", None)
              /\ UNCHANGED issued
         ELSE /\ access_token \in issued \/ Cardinality(issued) < MaxTokens
              /\ issued' = issued \cup {access_token}
              /\ last' = Resp("login", identifier, 200, "bearer", access_token)

-----------------------------------------------------------------------------
(* POST /auth/logout *)

logout_toggle(token) ==
    /\ blacklist' = IF token \in blacklist THEN blacklist \ {token}
                                           ELSE blacklist \cup {token}
    /\ last' = Resp("logout", None, 200, "Deconnecte avec succes", None)
    /\ UNCHANGED <<users, profiles, reset_codes, issued, now, reqs, regs>>

logout(token) ==
    /\ blacklist' = blacklist \cup {token}
    /\ last' = Resp("logout", None, 200, "Deconnecte avec succes", None)
    /\ UNCHANGED <<users, profiles, reset_codes, issued, now, reqs, regs>>

-----------------------------------------------------------------------------
(* GET /auth/me *)

get_me(token) ==
    LET out(status, detail, id) == Resp("get_me", None, status, detail, id)
        payload == jwt_get_current_user(token, now)
        db_user == get_user_by_identifier(users, payload.sub)
    IN
    /\ UNCHANGED <<users, profiles, reset_codes, blacklist, issued, now, reqs, regs>>
    /\ IF payload = NoPayload
         THEN last' = out(401, "Token invalide ou expire", 0)
       ELSE IF is_blacklisted(token, blacklist)
         THEN last' = out(401, "Token invalide (deconnecte)", 0)
       ELSE IF db_user = 0
         THEN last' = out(404, "Utilisateur introuvable", 0)
       ELSE last' = out(200, "user", db_user)

-----------------------------------------------------------------------------
(* The dependencies of the protected endpoints *)

\* auth/dependencies.py get_current_user: the account of the token's user_id
dependencies_get_current_user(token) ==
    LET out(status, detail, id) ==
            Resp("dependencies.get_current_user", None, status, detail, id)
    IN
    /\ UNCHANGED <<users, profiles, reset_codes, blacklist, issued, now, reqs, regs>>
    /\ IF ~jwt_decode_ok(token, now)
         THEN last' = out(401, "Token invalide ou expire", 0)
       ELSE IF token.sub = None \/ token.sub = ""
         THEN last' = out(401, "Token invalide : 'sub' manquant", 0)
       ELSE IF token.user_id \notin 1..Len(users)
         THEN last' = out(401, "Utilisateur non trouve", 0)
       ELSE last' = out(200, "user", token.user_id)

\* a profile document stores user_id as an int; the query value is a str,
\* and in MongoDB a string equals no number
mongo_eq_int_str(stored, query) == FALSE

\* auth/dependencies.py get_current_user_optional: the profile or nothing
get_current_user_optional(token) ==
    LET out(status, detail, id) ==
            Resp("get_current_user_optional", None, status, detail, id)
        docs == {d \in profiles : mongo_eq_int_str(d, token.sub)}
    IN
    /\ UNCHANGED <<users, profiles, reset_codes, blacklist, issued, now, reqs, regs>>
    /\ IF ~jwt_decode_ok(token, now) \/ token.sub = None \/ token.sub = ""
         THEN last' = out(0, "None", 0)
       ELSE IF docs = {}
         THEN last' = out(0, "None", 0)
       ELSE last' = out(200, "profile", Min(docs))

\* auth/permissions.py get_current_user: the payload of a token that verifies
permissions_get_current_user(token) ==
    LET out(status, detail, id) ==
            Resp("permissions.get_current_user", None, status, detail, id)
        payload == verify_access_token(token, now)
    IN
    /\ UNCHANGED <<users, profiles, reset_codes, blacklist, issued, now, reqs, regs>>
    /\ IF payload = NoPayload
         THEN last' = out(401, "Token invalide ou expire", 0)
         ELSE last' = out(200, "payload", payload.user_id)

-----------------------------------------------------------------------------
(* POST /auth/social-login. The provider answers 200 with the claims of the
   access token (an email or none), or a non-200 status *)

social_login(platform, response_status, email, mongo_ok) ==
    LET out(status, detail) == Resp("social_login", email, status, detail, None)
        found == find_by_email(users, email)
        id == IF found = 0 THEN Len(users) + 1 ELSE found
        us == IF found = 0
                THEN Append(users, User(id, email, None, "", platform))
                ELSE users
        token_jwt == create_access_token(
            [sub |-> us[id].email, user_id |-> id, role |-> us[id].role], now)
    IN
    /\ UNCHANGED <<reset_codes, blacklist, now, reqs, regs>>
    /\ IF platform \notin {"google", "facebook"}
         THEN /\ last' = out(400, "Plateforme non supportee")
              /\ UNCHANGED <<users, profiles, issued>>
       ELSE IF response_status # 200
         THEN /\ last' = out(400, "Token invalide")
              /\ UNCHANGED <<users, profiles, issued>>
       ELSE IF email = None
         THEN /\ last' = out(400, "Impossible de recuperer l'email utilisateur")
              /\ UNCHANGED <<users, profiles, issued>>
       ELSE /\ token_jwt \in issued \/ Cardinality(issued) < MaxTokens
            /\ users' = us
            /\ profiles' = IF found = 0
                             THEN insert_profile(profiles, id, mongo_ok)
                             ELSE profiles
            /\ issued' = issued \cup {token_jwt}
            /\ last' = Resp("social_login", email, 200, "bearer", token_jwt)

-----------------------------------------------------------------------------
(* register and social_login as the event loop runs them. A handler runs
   alone up to its next await and other requests run while it is suspended.
   The provider call of social_login is requests.get, a synchronous call made
   without a timeout: the loop runs nothing else until the provider answers *)

IdleReg == [pc |-> "idle", op |-> None, email |-> None, phone |-> None,
            pw |-> None, platform |-> None, status |-> 0]

DoneReg(q, status) ==
    [IdleReg EXCEPT !.pc = "done", !.op = q.op, !.email = q.email,
                    !.phone = q.phone, !.status = status]

\* some handler sits in requests.get
LoopBlocked == \E r \in Requests : regs[r].pc = "provider"

unique_violation_off(us, row) == FALSE

\* users.email and users.phone are declared unique: the INSERT fails when a
\* row already holds the (non-NULL) email or phone
unique_violation(us, row) ==
    \/ row.email # None /\ find_by_email(us, row.email) # 0
    \/ row.phone # None /\ find_by_phone(us, row.phone) # 0

\* lines 55-63: the identifier check, then the first SELECT is awaited
rg_begin(r, email, phone, pw) ==
    /\ ~LoopBlocked
    /\ regs[r].pc \in {"idle", "done"}
    /\ UNCHANGED <<users, profiles, reset_codes, blacklist, issued, now, reqs>>
    /\ IF email = None /\ phone = None
         THEN /\ regs' = [regs EXCEPT ![r] =
                     DoneReg([IdleReg EXCEPT !.op = "register"], 500)]
              /\ last' = Resp("register", email, 500,
                              "Erreur interne : 400: Email ou telephone requis", None)
         ELSE /\ regs' = [regs EXCEPT ![r] =
                     [IdleReg EXCEPT !.pc = IF email # None THEN "email" ELSE "phone",
                                     !.op = "register", !.email = email,
                                     !.phone = phone, !.pw = pw]]
              /\ UNCHANGED last

\* lines 63-66: the result of the SELECT by email
rg_check_email(r) ==
    /\ ~LoopBlocked
    /\ regs[r].pc = "email"
    /\ UNCHANGED <<users, profiles, reset_codes, blacklist, issued, now, reqs>>
    /\ IF find_by_email(users, regs[r].email) # 0
         THEN /\ regs' = [regs EXCEPT ![r] = DoneReg(@, 500)]
              /\ last' = Resp("register", regs[r].email, 500,
                              "Erreur interne : 400: Email deja enregistre", None)
         ELSE /\ regs' = [regs EXCEPT ![r].pc =
                     IF regs[r].phone # None THEN "phone" ELSE "commit"]
              /\ UNCHANGED last

\* lines 69-73: the result of the SELECT by phone
rg_check_phone(r) ==
    /\ ~LoopBlocked
    /\ regs[r].pc = "phone"
    /\ UNCHANGED <<users, profiles, reset_codes, blacklist, issued, now, reqs>>
    /\ IF find_by_phone(users, regs[r].phone) # 0
         THEN /\ regs' = [regs EXCEPT ![r] = DoneReg(@, 500)]
              /\ last' = Resp("register", regs[r].email, 500,
                              "Erreur interne : 400: Telephone deja enregistre", None)
         ELSE /\ regs' = [regs EXCEPT ![r].pc = "commit"]
              /\ UNCHANGED last

\* lines 84-123: the INSERT is committed, or fails on a unique column and
\* the IntegrityError leaves through "except Exception"
rg_commit(r, mongo_ok) ==
    LET row == User(Len(users) + 1, regs[r].email, regs[r].phone,
                    hash_password(regs[r].pw), "user")
    IN
    /\ ~LoopBlocked
    /\ regs[r].pc = "commit"
    /\ UNCHANGED <<reset_codes, blacklist, issued, now, reqs>>
    /\ IF unique_violation(users, row)
         THEN /\ regs' = [regs EXCEPT ![r] = DoneReg(@, 500)]
              /\ last' = Resp("register", regs[r].email, 500,
                              "Erreur interne : IntegrityError", None)
              /\ UNCHANGED <<users, profiles>>
         ELSE /\ users' = Append(users, row)
              /\ profiles' = insert_profile(profiles, row.id, mongo_ok)
              /\ regs' = [regs EXCEPT ![r] = DoneReg(@, 201)]
              /\ last' = Resp("register", regs[r].email, 201,
                              "Utilisateur enregistre avec succes", row.id)

\* lines 366-377: the platform check, then requests.get is entered
sl_begin(r, platform) ==
    /\ ~LoopBlocked
    /\ regs[r].pc \in {"idle", "done"}
    /\ UNCHANGED <<users, profiles, reset_codes, blacklist, issued, now, reqs>>
    /\ IF platform \notin {"google", "facebook"}
         THEN /\ regs' = [regs EXCEPT ![r] =
                     DoneReg([IdleReg EXCEPT !.op = "social_login"], 400)]
              /\ last' = Resp("social_login", None, 400,
                              "Plateforme non supportee", None)
         ELSE /\ regs' = [regs EXCEPT ![r] =
                     [IdleReg EXCEPT !.pc = "provider", !.op = "social_login",
                                     !.platform = platform]]
              /\ UNCHANGED last

\* lines 378-414: the provider has answered; the handler goes on to the
\* SELECT by email
sl_response(r, response_status, email) ==
    /\ regs[r].pc = "provider"
    /\ UNCHANGED <<users, profiles, reset_codes, blacklist, issued, now, reqs>>
    /\ IF response_status # 200
         THEN /\ regs' = [regs EXCEPT ![r] = DoneReg(@, 400)]
              /\ last' = Resp("social_login", email, 400, "Token invalide", None)
       ELSE IF email = None
         THEN /\ regs' = [regs EXCEPT ![r] = DoneReg(@, 400)]
              /\ last' = Resp("social_login", email, 400,
                              "Impossible de recuperer l'email utilisateur", None)
       ELSE /\ regs' = [regs EXCEPT ![r].pc = "lookup", ![r].email = email]
            /\ UNCHANGED last

\* lines 414-448: the result of the SELECT; an account found gets its token
sl_lookup(r) ==
    LET found == find_by_email(users, regs[r].email)
        token_jwt == create_access_token(
            [sub |-> users[found].email, user_id |-> found,
             role |-> users[found].role], now)
    IN
    /\ ~LoopBlocked
    /\ regs[r].pc = "lookup"
    /\ UNCHANGED <<users, profiles, reset_codes, blacklist, now, reqs>>
    /\ IF found = 0
         THEN /\ regs' = [regs EXCEPT ![r].pc = "create"]
              /\ UNCHANGED <<issued, last>>
         ELSE /\ issued' = issued \cup {token_jwt}
              /\ regs' = [regs EXCEPT ![r] = DoneReg(@, 200)]
              /\ last' = Resp("social_login", regs[r].email, 200, "bearer", token_jwt)

\* lines 417-448: the INSERT of the new account is committed, or fails on
\* the unique email
sl_commit(r, mongo_ok) ==
    LET row == User(Len(users) + 1, regs[r].email, None, "", regs[r].platform)
        token_jwt == create_access_token(
            [sub |-> row.email, user_id |-> row.id, role |-> row.role], now)
    IN
    /\ ~LoopBlocked
    /\ regs[r].pc = "create"
    /\ UNCHANGED <<reset_codes, blacklist, now, reqs>>
    /\ IF unique_violation(users, row)
         THEN /\ regs' = [regs EXCEPT ![r] = DoneReg(@, 500)]
              /\ last' = Resp("social_login", regs[r].email, 500,
                              "Erreur interne : IntegrityError", None)
              /\ UNCHANGED <<users, profiles, issued>>
         ELSE /\ users' = Append(users, row)
              /\ profiles' = insert_profile(profiles, row.id, mongo_ok)
              /\ issued' = issued \cup {token_jwt}
              /\ regs' = [regs EXCEPT ![r] = DoneReg(@, 200)]
              /\ last' = Resp("social_login", regs[r].email, 200, "bearer", token_jwt)

-----------------------------------------------------------------------------
(* The account directory is a table other parties write too: an account can
   be removed while a reset is under way. The row's id is never reused; the
   model keeps its position and leaves it no identifier to match *)

MaxDeleted == 1

Deleted(us) == {i \in 1..Len(us) : us[i].role = "deleted"}

delete_account(id) ==
    /\ id \in 1..Len(users)
    /\ id \notin Deleted(users)
    /\ Cardinality(Deleted(users)) < MaxDeleted
    /\ users' = [users EXCEPT ![id] = User(id, None, None, "", "deleted")]
    /\ UNCHANGED <<profiles, reset_codes, blacklist, issued, now, reqs, regs, last>>

-----------------------------------------------------------------------------
(* cleanup_expired_codes: a coroutine of the module that no route and no
   task calls; it runs without suspending *)

expired_keys_pending(rc, t) ==
    {rc[i].identifier : i \in {k \in 1..Len(rc) :
                                 t > rc[k].expires /\ ~rc[k].verified}}

\* the identifiers whose item has current_time > entry["expires"]
expired_keys(rc, t) ==
    {rc[i].identifier : i \in {k \in 1..Len(rc) : t > rc[k].expires}}

cleanup_expired_codes ==
    /\ reset_codes' = SelectSeq(reset_codes,
           LAMBDA e : e.identifier \notin expired_keys(reset_codes, now))
    /\ last' = Resp("cleanup_expired_codes", None, 200, None,
                    Cardinality(expired_keys(reset_codes, now)))
    /\ UNCHANGED <<users, profiles, blacklist, issued, now, reqs, regs>>

-----------------------------------------------------------------------------
(* The clock *)

Tick(step, max) ==
    /\ now + step <= max
    /\ now' = now + step
    /\ UNCHANGED <<users, profiles, reset_codes, blacklist, issued, reqs, regs, last>>

-----------------------------------------------------------------------------
(* The state after start-up: empty tables, empty registries *)

Idle == [pc |-> "idle", verified_identifier |-> None, code_entry |-> NoEntry,
         db_user |-> 0, newPassword |-> None, shared |-> FALSE, status |-> 0]

Init ==
    /\ users = <<>>
    /\ profiles = {}
    /\ reset_codes = <<>>
    /\ blacklist = {}
    /\ issued = {}
    /\ now = 0
    /\ reqs = [r \in Requests |-> Idle]
    /\ regs = [r \in Requests |-> IdleReg]
    /\ last = Resp("start", None, 0, None, None)

Register ==
    \E email \in Emails \cup {None}, phone \in Phones \cup {None},
       pw \in Passwords, mongo_ok \in BOOLEAN :
        register(email, phone, pw, mongo_ok)

ForgotPassword ==
    \E identifier \in Identifiers, code \in generate_verification_code :
        forgot_password(identifier, code)

VerifyCode == \E code \in Codes : verify_code(code)

ResetPassword == \E newPassword \in Passwords : reset_password(newPassword)

TickReset == Tick(ResetTick, MaxResetTime)

NextReset ==
    \/ Register
    \/ ForgotPassword
    \/ VerifyCode
    \/ ResetPassword
    \/ TickReset

SpecReset == Init /\ [][NextReset]_vars

Login == \E identifier \in Identifiers, pw \in Passwords : login(identifier, pw)

SocialLogin ==
    \E platform \in {"google", "facebook", "twitter"},
       response_status \in {200, 400},
       email \in Emails \cup {None}, mongo_ok \in BOOLEAN :
        social_login(platform, response_status, email, mongo_ok)

Logout == \E token \in issued : logout(token)

GetMe == \E token \in Presentable : get_me(token)

DependenciesGetCurrentUser ==
    \E token \in Presentable : dependencies_get_current_user(token)

GetCurrentUserOptional ==
    \E token \in Presentable : get_current_user_optional(token)

PermissionsGetCurrentUser ==
    \E token \in Presentable : permissions_get_current_user(token)

TickToken == Tick(TokenTick, MaxTokenTime)

\* registrations with one password; logins try both
RegisterAccount ==
    \E email \in Emails \cup {None}, phone \in Phones \cup {None},
       mongo_ok \in BOOLEAN :
        register(email, phone, "secret1", mongo_ok)

NextToken ==
    \/ RegisterAccount
    \/ Login
    \/ SocialLogin
    \/ Logout
    \/ GetMe
    \/ DependenciesGetCurrentUser
    \/ GetCurrentUserOptional
    \/ PermissionsGetCurrentUser
    \/ TickToken

SpecToken == Init /\ [][NextToken]_vars

\* registration and the two logins alone
NextAccounts ==
    \/ Register
    \/ Login
    \/ SocialLogin

SpecAccounts == Init /\ [][NextAccounts]_vars

RpBegin == \E r \in Requests, newPassword \in Passwords : rp_begin(r, newPassword)

RpLookup == \E r \in Requests : rp_lookup(r)

RpCommit == \E r \in Requests : rp_commit(r)

RpPop == \E r \in Requests : rp_pop(r)

RegisterOne ==
    \E email \in Emails \cup {None}, phone \in Phones \cup {None} :
        register(email, phone, "secret1", TRUE)

NextResetConc ==
    \/ RegisterOne
    \/ ForgotPassword
    \/ VerifyCode
    \/ RpBegin
    \/ RpLookup
    \/ RpCommit
    \/ RpPop

SpecResetConc == Init /\ [][NextResetConc]_vars

\* the reset-code table next to the sweep
NextSweep ==
    \/ RegisterOne
    \/ ForgotPassword
    \/ VerifyCode
    \/ TickReset
    \/ cleanup_expired_codes

SpecSweep == Init /\ [][NextSweep]_vars

\* the reset flow followed by logins
NextResetLogin ==
    \/ RegisterOne
    \/ ForgotPassword
    \/ VerifyCode
    \/ ResetPassword
    \/ Login

SpecResetLogin == Init /\ [][NextResetLogin]_vars

-----------------------------------------------------------------------------
(* Properties of tokens and the blacklist (SpecToken) *)

\* C1: once logout(t) has completed, /auth/me rejects t with 401 on every
\* later request, whatever its signature and expiry: logout puts t in the
\* blacklist, no step takes a token out of it, and get_me refuses every
\* member of it.
C1_RevokedTokenRejected ==
    [][/\ blacklist \subseteq blacklist'
       /\ \A t \in Presentable : logout(t) => t \in blacklist'
       /\ \A t \in Presentable :
            (get_me(t) /\ t \in blacklist)
              => /\ last'.status = 401
                 /\ last'.out = 0]_vars

\* /auth/me has refused a well-signed, unexpired token because it was revoked
C1_Witness ==
    /\ last.op = "get_me"
    /\ last.status = 401
    /\ last.detail = "Token invalide (deconnecte)"
    /\ \E t \in blacklist : t.key = JWT_SECRET /\ t.exp >= now

\* C2: no authentication path of a protected endpoint accepts a token that
\* is in the blacklist.
C2_EveryPathChecksBlacklist ==
    [][\A t \in Presentable :
         (/\ t \in blacklist
          /\ \/ get_me(t)
             \/ dependencies_get_current_user(t)
             \/ get_current_user_optional(t)
             \/ permissions_get_current_user(t))
           => last'.status # 200]_vars

\* C3: /auth/me accepts a token issued by login or social login that is
\* neither revoked nor expired and whose account exists, and resolves it to
\* the account it was issued for.
C3_IssuedTokenAccepted ==
    [][\A t \in issued :
         (/\ get_me(t)
          /\ t \notin blacklist
          /\ t.exp >= now
          /\ t.user_id \in 1..Len(users))
           => /\ last'.status = 200
              /\ last'.out = t.user_id]_vars

\* C4: the token of a successful login has the account's email as subject
\* when the account has an email, its phone otherwise.
C4_SubjectIsEmailOrPhone ==
    [][\A identifier \in Identifiers, pw \in Passwords :
         (login(identifier, pw) /\ last'.status = 200)
           => LET u == users[get_user_by_identifier(users, identifier)]
              IN last'.out.sub = IF u.email # None THEN u.email ELSE u.phone]_vars

RgBegin ==
    \E r \in Requests, email \in Emails \cup {None}, phone \in Phones \cup {None} :
        rg_begin(r, email, phone, "secret1")

RgCheckEmail == \E r \in Requests : rg_check_email(r)

RgCheckPhone == \E r \in Requests : rg_check_phone(r)

RgCommit == \E r \in Requests, mongo_ok \in BOOLEAN : rg_commit(r, mongo_ok)

SlBegin ==
    \E r \in Requests, platform \in {"google", "facebook", "twitter"} :
        sl_begin(r, platform)

\* the provider's answer; nothing obliges the provider to give one
SlResponse ==
    \E r \in Requests, response_status \in {200, 400},
       email \in Emails \cup {None} :
        sl_response(r, response_status, email)

SlLookup == \E r \in Requests : sl_lookup(r)

SlCommit == \E r \in Requests, mongo_ok \in BOOLEAN : sl_commit(r, mongo_ok)

NextAccountsConc ==
    \/ RgBegin
    \/ RgCheckEmail
    \/ RgCheckPhone
    \/ RgCommit
    \/ SlBegin
    \/ SlResponse
    \/ SlLookup
    \/ SlCommit

SpecAccountsConc == Init /\ [][NextAccountsConc]_vars

DeleteAccount == \E id \in 1..Len(users) : delete_account(id)

\* the reset flow next to removals of accounts
NextResetGone ==
    \/ RegisterOne
    \/ ForgotPassword
    \/ VerifyCode
    \/ ResetPassword
    \/ DeleteAccount

SpecResetGone == Init /\ [][NextResetGone]_vars

\* C21: logout always succeeds and is idempotent: it answers 200, the token
\* is in the blacklist afterwards, no token ever leaves the blacklist, and
\* a logout with a token that is already there leaves the set as it was.
C21_LogoutIdempotent ==
    [][\A token \in issued :
          logout(token)
            => /\ last'.status = 200
               /\ blacklist' = blacklist \cup {token}
               /\ blacklist \subseteq blacklist'
               /\ token \in blacklist => blacklist' = blacklist]_vars

\* a logout answered while one of two issued tokens is revoked and the
\* other is not
C21_Witness ==
    /\ last.op = "logout"
    /\ last.status = 200
    /\ Cardinality(issued) = 2
    /\ Cardinality(blacklist) = 1
    /\ blacklist \subseteq issued

-----------------------------------------------------------------------------
(* Properties of registration and login (SpecAccounts) *)

\* the accounts register created with this email and this password
Registered(us, email, pw) ==
    {i \in 1..Len(us) : /\ us[i].email = email
                        /\ us[i].role = "user"
                        /\ us[i].hashed_password = hash_password(pw)}

\* C12: a registration with an email no account uses (and a phone, if any,
\* no account uses) succeeds with 201 and creates the account; every later
\* login with that email and that password succeeds and returns a token
\* for the account.
C12_RegisterThenLogin ==
    [][/\ \A email \in Emails, phone \in Phones \cup {None},
            pw \in Passwords, mongo_ok \in BOOLEAN :
            (/\ \A i \in 1..Len(users) : users[i].email # email
             /\ \A i \in 1..Len(users) : phone = None \/ users[i].phone # phone
             /\ register(email, phone, pw, mongo_ok))
              => /\ last'.status = 201
                 /\ Len(users') = Len(users) + 1
                 /\ SubSeq(users', 1, Len(users)) = users
                 /\ Registered(users', email, pw) = {Len(users')}
                 /\ users'[Len(users')].phone = phone
       /\ \A email \in Emails, pw \in Passwords :
            (Registered(users, email, pw) # {} /\ login(email, pw))
              => /\ last'.status = 200
                 /\ last'.out \in issued'
                 /\ last'.out.user_id \in Registered(users, email, pw)
                 /\ jwt_decode_ok(last'.out, now)
      ]_vars

\* a login by email into a registered account that is not the first row
C12_Witness ==
    /\ last.op = "login"
    /\ last.status = 200
    /\ last.arg \in Emails
    /\ Registered(users, last.arg, "secret1") = {2}
    /\ last.out.user_id = 2

\* C13: a register whose email an account already holds fails with the
\* duplicate-identifier client error (status 400, not 500), whatever the
\* phone, and creates no account.
C13_DuplicateEmailClientError ==
    [][\A email \in Emails, phone \in Phones \cup {None},
          pw \in Passwords, mongo_ok \in BOOLEAN :
          (/\ \E i \in 1..Len(users) : users[i].email = email
           /\ register(email, phone, pw, mongo_ok))
            => /\ last'.status = 400
               /\ users' = users
               /\ profiles' = profiles]_vars

\* the accounts an identifier resolves to
Resolved(us, identifier) ==
    {i \in 1..Len(us) : us[i].email = identifier \/ us[i].phone = identifier}

\* C14: a login with an identifier that resolves to no account and a login
\* with an existing identifier and a wrong password get the same answer:
\* status 401, the one fixed detail, no token; this includes the accounts
\* social login created with an empty password hash.
C14_LoginFailuresAlike ==
    [][\A identifier \in Identifiers, pw \in Passwords :
          (/\ \A i \in Resolved(users, identifier) :
                   users[i].hashed_password # hash_password(pw)
           /\ login(identifier, pw))
            => /\ last'.status = 401
               /\ last'.detail = "Identifiant ou mot de passe incorrect"
               /\ last'.out = None
               /\ issued' = issued]_vars

\* a refused login into an account that has the empty password hash, next
\* to an identifier that resolves to nothing
C14_Witness ==
    /\ last.op = "login"
    /\ last.status = 401
    /\ \E i \in Resolved(users, last.arg) : users[i].hashed_password = ""
    /\ \E identifier \in Identifiers : Resolved(users, identifier) = {}

\* C19: socialLogin with a valid provider token is create-or-found on the
\* email: an existing account is left as it is and none is created; with no
\* such account exactly one is created, with the empty password hash and
\* the provider name as role; either way a token is issued whose subject is
\* the email.
C19_SocialCreateOrFound ==
    [][\A platform \in {"google", "facebook"}, email \in Emails,
          mongo_ok \in BOOLEAN :
          social_login(platform, 200, email, mongo_ok)
            => /\ Resolved(users, email) # {} => users' = users
               /\ Resolved(users, email) = {}
                    => /\ Len(users') = Len(users) + 1
                       /\ SubSeq(users', 1, Len(users)) = users
                       /\ users'[Len(users')] =
                            User(Len(users'), email, None, "", platform)
               /\ last'.status = 200
               /\ last'.out \in issued'
               /\ last'.out.sub = email]_vars

\* the registered accounts that hold this email and have no profile document
Orphans(us, ps, email) ==
    {i \in 1..Len(us) : us[i].email = email /\ us[i].role = "user" /\ i \notin ps}

\* C20: when the profile document cannot be created after the account was
\* committed, the account is not rolled back: register still answers 201 and
\* the account is in the directory without a profile; a login with its
\* credentials succeeds; a repeated register with its email is refused by
\* the duplicate-email check and creates nothing.
C20_NoRollbackOnProfileFailure ==
    [][/\ \A email \in Emails \cup {None}, phone \in Phones \cup {None},
            pw \in Passwords :
            (/\ email # None \/ phone # None
             /\ \A i \in 1..Len(users) : email = None \/ users[i].email # email
             /\ \A i \in 1..Len(users) : phone = None \/ users[i].phone # phone
             /\ register(email, phone, pw, FALSE))
              => /\ users' = Append(users, User(Len(users) + 1, email, phone,
                                                hash_password(pw), "user"))
                 /\ profiles' = profiles
                 /\ last'.status = 201
       /\ \A email \in Emails, pw \in Passwords :
            (/\ Orphans(users, profiles, email) # {}
             /\ \A i \in Orphans(users, profiles, email) :
                    users[i].hashed_password = hash_password(pw)
             /\ login(email, pw))
              => /\ last'.status = 200
                 /\ last'.out.user_id \in Orphans(users, profiles, email)
       /\ \A email \in Emails, phone \in Phones \cup {None},
            pw \in Passwords, mongo_ok \in BOOLEAN :
            (/\ Orphans(users, profiles, email) # {}
             /\ register(email, phone, pw, mongo_ok))
              => /\ last'.status # 201
                 /\ last'.detail = "Erreur interne : 400: Email deja enregistre"
                 /\ users' = users
                 /\ profiles' = profiles
      ]_vars

\* an account without profile that has logged in and whose email was then
\* refused at a second register
C20_Witness ==
    /\ last.op = "register"
    /\ last.detail = "Erreur interne : 400: Email deja enregistre"
    /\ \E i \in Orphans(users, profiles, last.arg) :
          \E t \in issued : t.user_id = i /\ t.role = "user"

-----------------------------------------------------------------------------
(* Properties of the reset-code table (SpecReset) *)

Verified(rc) == {i \in 1..Len(rc) : rc[i].verified}

Holders(rc, code) == {i \in 1..Len(rc) : rc[i].code = code}

\* C5: forgotPassword, verifyCode, resetPassword succeeds exactly once: a
\* resetPassword that directly follows a successful resetPassword, no
\* verifyCode in between, fails with "no verified code" and leaves every
\* password as it is.
C5_ResetSucceedsOnce ==
    [][\A np \in Passwords :
         (last.op = "reset_password" /\ last.status = 200 /\ reset_password(np))
           => /\ last'.status = 400
              /\ last'.detail = "Aucun code verifie trouve"
              /\ users' = users]_vars

\* C7: verifyCode with a code whose attempt (the first attempt in table
\* order that carries the code) has expired fails with "code expired", the
\* attempt is removed and was not marked verified, the others are untouched.
C7_ExpiredCodeRejected ==
    [][\A c \in Codes :
         (/\ verify_code(c)
          /\ Holders(reset_codes, c) # {}
          /\ now > reset_codes[Min(Holders(reset_codes, c))].expires)
           => LET gone == reset_codes[Min(Holders(reset_codes, c))]
              IN /\ last'.status = 400
                 /\ last'.detail = "Code expire"
                 /\ \A i \in 1..Len(reset_codes') :
                        reset_codes'[i].identifier # gone.identifier
                 /\ reset_codes' =
                        SelectSeq(reset_codes, LAMBDA e : e # gone)]_vars

C7_Witness ==
    /\ last.op = "verify_code"
    /\ last.detail = "Code expire"
    /\ Len(reset_codes) = 1
    /\ Holders(reset_codes, last.arg) = {}

\* C8: verifyCode with a code no stored attempt carries fails with "invalid
\* code" and leaves the reset-code table exactly as it was.
C8_UnknownCodeNoMutation ==
    [][\A c \in Codes :
         (verify_code(c) /\ Holders(reset_codes, c) = {})
           => /\ last'.status = 400
              /\ last'.detail = "Code invalide"
              /\ reset_codes' = reset_codes]_vars

C8_Witness ==
    /\ last.op = "verify_code"
    /\ last.detail = "Code invalide"
    /\ Len(reset_codes) = 2
    /\ Verified(reset_codes) # {}

\* C9: at most one attempt per identifier. A repeated forgotPassword leaves
\* a single attempt for the identifier, carrying the new code, unverified
\* and with a fresh expiry; verifyCode resolves an identifier only through
\* the code its current attempt carries, and the current code verifies
\* (where the identifier's attempt is the first in table order to carry it).
C9_OneAttemptPerIdentifier ==
    [][/\ \A i, j \in 1..Len(reset_codes') :
            reset_codes'[i].identifier = reset_codes'[j].identifier => i = j
       /\ \A id \in Identifiers, c \in Codes :
            (forgot_password(id, c) /\ get_user_by_identifier(users, id) # 0)
              => LET mine == {i \in 1..Len(reset_codes') :
                                 reset_codes'[i].identifier = id}
                 IN /\ Cardinality(mine) = 1
                    /\ \A i \in mine :
                         reset_codes'[i] =
                             Attempt(id, c, now + RESET_CODE_TTL, FALSE)
       /\ \A c \in Codes :
            (verify_code(c) /\ last'.status = 200)
              => \E i \in 1..Len(reset_codes) :
                    /\ reset_codes[i].identifier = last'.out
                    /\ reset_codes[i].code = c
       /\ \A c \in Codes :
            (/\ verify_code(c)
             /\ Holders(reset_codes, c) # {}
             /\ now <= reset_codes[Min(Holders(reset_codes, c))].expires)
              => /\ last'.status = 200
                 /\ last'.out = reset_codes[Min(Holders(reset_codes, c))].identifier
                 /\ reset_codes'[Min(Holders(reset_codes, c))].verified
      ]_vars

\* a later item with an earlier expiry: the first item was stored again
\* after the second one was inserted, i.e. requested twice
C9_Witness ==
    /\ last.op = "forgot_password"
    /\ Len(reset_codes) = 2
    /\ reset_codes[1].identifier = last.arg
    /\ reset_codes[1].code = last.out
    /\ reset_codes[1].expires > reset_codes[2].expires

\* C10: in every reachable state at most one attempt has verified = true.
C10_AtMostOneVerified == Cardinality(Verified(reset_codes)) <= 1

\* C11: the verified flag of an attempt is set only by verifyCode, and only
\* at a time not later than the attempt's expiry: whenever a step leaves a
\* verified attempt in the table that was not there, verified, before, the
\* step is a successful verify_code of that attempt's code and the clock is
\* not past the attempt's expiry.
C11_VerifiedOnlyInTime ==
    [][\A i \in 1..Len(reset_codes') :
         (/\ reset_codes'[i].verified
          /\ \A j \in 1..Len(reset_codes) : reset_codes[j] # reset_codes'[i])
           => /\ verify_code(reset_codes'[i].code)
              /\ last'.op = "verify_code"
              /\ last'.status = 200
              /\ last'.out = reset_codes'[i].identifier
              /\ now <= reset_codes'[i].expires]_vars

\* an attempt verified at the very instant of its expiry: the latest call is
\* its verify_code, and it came after a forgot_password made at that instant
C11_Witness ==
    /\ last.op = "verify_code"
    /\ last.status = 200
    /\ \E i, j \in 1..Len(reset_codes) :
          /\ reset_codes[i].verified
          /\ reset_codes[i].identifier = last.out
          /\ reset_codes[i].expires = now
          /\ ~reset_codes[j].verified
          /\ reset_codes[j].expires = now + RESET_CODE_TTL

\* C16: forgotPassword with an identifier that resolves to no account fails
\* with 404 "account not found" and leaves the reset-code table exactly as
\* it was: nothing is stored for the identifier, no attempt is modified.
C16_UnknownIdentifierNoAttempt ==
    [][\A identifier \in Identifiers, code \in Codes :
          (/\ Resolved(users, identifier) = {}
           /\ forgot_password(identifier, code))
            => /\ last'.status = 404
               /\ last'.detail = "Utilisateur non trouve"
               /\ reset_codes' = reset_codes]_vars

\* refused while another identifier has an attempt in the table
C16_Witness ==
    /\ last.op = "forgot_password"
    /\ last.status = 404
    /\ Resolved(users, last.arg) = {}
    /\ reset_codes # <<>>

\* C22: resetPassword called when the verified attempt (the first verified
\* one in table order) has expired since it was verified fails with "code
\* expired", removes that attempt and no other, and changes no password.
C22_ExpiredVerifiedRejected ==
    [][\A np \in Passwords :
          (/\ Verified(reset_codes) # {}
           /\ now > reset_codes[Min(Verified(reset_codes))].expires
           /\ reset_password(np))
            => LET gone == reset_codes[Min(Verified(reset_codes))]
               IN /\ last'.status = 400
                  /\ last'.detail = "Code expire"
                  /\ reset_codes' = SelectSeq(reset_codes, LAMBDA e : e # gone)
                  /\ users' = users]_vars

\* refused as expired, the attempt gone, another attempt left in place
C22_Witness ==
    /\ last.op = "reset_password"
    /\ last.detail = "Code expire"
    /\ Verified(reset_codes) = {}
    /\ Len(reset_codes) = 1
    /\ now <= reset_codes[1].expires

\* C23: forgotPassword overwrites the identifier's attempt in whatever state
\* it is: made while the attempt is verified, it leaves in the same place an
\* unverified attempt with the new code and a fresh 10-minute expiry, the
\* other attempts untouched; and resetPassword never consumes an attempt
\* that is not verified: it neither removes it nor resets for its identifier.
C23_ForgotOverwritesVerified ==
    [][/\ \A identifier \in Identifiers, code \in Codes :
            (/\ Resolved(users, identifier) # {}
             /\ \E i \in Verified(reset_codes) :
                    reset_codes[i].identifier = identifier
             /\ forgot_password(identifier, code))
              => /\ Len(reset_codes') = Len(reset_codes)
                 /\ \A i \in 1..Len(reset_codes) :
                       reset_codes'[i] =
                         IF reset_codes[i].identifier = identifier
                           THEN Attempt(identifier, code,
                                        now + RESET_CODE_TTL, FALSE)
                           ELSE reset_codes[i]
       /\ \A np \in Passwords :
            reset_password(np)
              => \A i \in 1..Len(reset_codes) :
                    ~reset_codes[i].verified
                      => /\ \E j \in 1..Len(reset_codes') :
                               reset_codes'[j] = reset_codes[i]
                         /\ ~(/\ last'.status = 200
                              /\ last'.out = reset_codes[i].identifier)
      ]_vars

\* a resetPassword refused for want of a verified attempt while an
\* unexpired attempt, stored again at a later time, is pending
C23_Witness ==
    /\ last.op = "reset_password"
    /\ last.detail = "Aucun code verifie trouve"
    /\ Len(reset_codes) = 1
    /\ ~reset_codes[1].verified
    /\ reset_codes[1].expires = now + RESET_CODE_TTL
    /\ now > 0

\* C26: with verified, unexpired attempts for two identifiers of two
\* different accounts, resetPassword succeeds for the identifier whose
\* attempt comes first in table order: that account alone gets the new
\* password, that attempt alone is removed, and the other attempt stays,
\* verified.
C26_TwoVerifiedResetsFirst ==
    [][\A np \in Passwords, i, j \in 1..Len(reset_codes) :
          (/\ Verified(reset_codes) = {i, j}
           /\ i < j
           /\ now <= reset_codes[i].expires
           /\ now <= reset_codes[j].expires
           /\ Resolved(users, reset_codes[i].identifier) # {}
           /\ Resolved(users, reset_codes[j].identifier) # {}
           /\ Resolved(users, reset_codes[i].identifier)
                 # Resolved(users, reset_codes[j].identifier)
           /\ reset_password(np))
            => /\ last'.status = 200
               /\ last'.out = reset_codes[i].identifier
               /\ \A k \in 1..Len(users) :
                     users'[k] =
                       IF k \in Resolved(users, reset_codes[i].identifier)
                         THEN [users[k] EXCEPT
                                 !.hashed_password = hash_password(np)]
                         ELSE users[k]
               /\ reset_codes' =
                     SelectSeq(reset_codes, LAMBDA e : e # reset_codes[i])
               /\ \E k \in 1..Len(reset_codes') :
                     reset_codes'[k] = reset_codes[j] /\ reset_codes'[k].verified
      ]_vars

\* a reset done for one account while the verified attempt of another
\* account is still in the table
C26_Witness ==
    /\ last.op = "reset_password"
    /\ last.status = 200
    /\ Len(reset_codes) = 1
    /\ reset_codes[1].verified
    /\ now <= reset_codes[1].expires
    /\ Resolved(users, last.out) # {}
    /\ Resolved(users, reset_codes[1].identifier) # {}
    /\ Resolved(users, last.out) # Resolved(users, reset_codes[1].identifier)

\* C28: forgotPassword stores the attempt before it delivers the code: when
\* the delivery fails and the call answers 500, the pending attempt is in
\* the table; its code then verifies, and the verified attempt is consumed
\* by resetPassword (where it is the first in table order to carry the
\* code, respectively the first verified one, and has not expired).
C28_StoredBeforeDelivery ==
    [][/\ \A identifier \in Identifiers, code \in Codes :
            (forgot_password(identifier, code) /\ last'.status = 500)
              => \E i \in 1..Len(reset_codes') :
                    reset_codes'[i] =
                        Attempt(identifier, code, now + RESET_CODE_TTL, FALSE)
       /\ \A code \in Codes :
            (/\ last.op = "forgot_password"
             /\ last.status = 500
             /\ last.out = code
             /\ Holders(reset_codes, code) # {}
             /\ reset_codes[Min(Holders(reset_codes, code))].identifier = last.arg
             /\ now <= reset_codes[Min(Holders(reset_codes, code))].expires
             /\ verify_code(code))
              => /\ last'.status = 200
                 /\ last'.out = last.arg
       /\ \A np \in Passwords :
            (/\ last.op = "verify_code"
             /\ last.status = 200
             /\ last.out \in Emails
             /\ Verified(reset_codes) # {}
             /\ reset_codes[Min(Verified(reset_codes))].identifier = last.out
             /\ now <= reset_codes[Min(Verified(reset_codes))].expires
             /\ reset_password(np))
              => /\ last'.status = 200
                 /\ last'.out = last.out
                 /\ \A i \in 1..Len(reset_codes') :
                       reset_codes'[i].identifier # last.out
                 /\ \A k \in Resolved(users, last.out) :
                       users'[k].hashed_password = hash_password(np)
      ]_vars

\* a reset completed for an email identifier, whose code was never delivered
C28_Witness ==
    /\ last.op = "reset_password"
    /\ last.status = 200
    /\ last.out \in Emails
    /\ send_email_async_raises

\* C29 as claimed: verifyCode(c) succeeds whenever some identifier has an
\* unexpired attempt with code c, also when another identifier's expired
\* attempt holds the same code.
C29_UnexpiredHolderVerifies ==
    [][\A c \in Codes :
          (/\ \E i \in Holders(reset_codes, c) : now <= reset_codes[i].expires
           /\ verify_code(c))
            => last'.status = 200]_vars

\* C29: verifyCode(c) is decided by the first attempt in table order that
\* holds c. It fails with "code expired" exactly when that attempt has
\* expired, then removes that attempt alone, so a later unexpired attempt
\* with the same code stays as it was (and is the one the next verifyCode(c)
\* meets); when the first holder has not expired the call succeeds for the
\* first holder's identifier.
C29_FirstHolderDecides ==
    [][\A c \in Codes :
          verify_code(c)
            => LET H == Holders(reset_codes, c)
                   first == reset_codes[Min(H)]
               IN /\ last'.detail = "Code expire"
                       <=> (H # {} /\ now > first.expires)
                  /\ (H # {} /\ now > first.expires)
                       => /\ last'.status = 400
                          /\ reset_codes' =
                               SelectSeq(reset_codes, LAMBDA e : e # first)
                  /\ (H # {} /\ now <= first.expires)
                       => /\ last'.status = 200
                          /\ last'.out = first.identifier
                          /\ reset_codes' =
                               [reset_codes EXCEPT ![Min(H)].verified = TRUE]
      ]_vars

\* refused as expired while an unexpired attempt with the same code is in
\* the table
C29_Witness ==
    /\ last.op = "verify_code"
    /\ last.detail = "Code expire"
    /\ \E i \in Holders(reset_codes, last.arg) :
          /\ now <= reset_codes[i].expires
          /\ ~reset_codes[i].verified

\* C30 as claimed: an account never has more than one attempt in the table,
\* whichever of its identifiers the attempts were requested with.
C30_OneAttemptPerAccount ==
    \A i, j \in 1..Len(reset_codes) :
        (Resolved(users, reset_codes[i].identifier)
            \cap Resolved(users, reset_codes[j].identifier) # {}) => i = j

\* C30: attempts are kept per identifier, not per account. A forgotPassword
\* leaves exactly one attempt for the identifier it was called with and
\* leaves the attempt of every other identifier as it was, the other
\* identifier of the same account included; after forgotPassword by email
\* and then by phone the account has two attempts and the earlier code
\* still verifies.
C30_OneAttemptPerIdentifierOnly ==
    [][/\ \A identifier \in Identifiers, code \in Codes :
            (Resolved(users, identifier) # {} /\ forgot_password(identifier, code))
              => /\ Cardinality({i \in 1..Len(reset_codes') :
                        reset_codes'[i].identifier = identifier}) = 1
                 /\ \A i \in 1..Len(reset_codes) :
                       reset_codes[i].identifier # identifier
                         => /\ i <= Len(reset_codes')
                            /\ reset_codes'[i] = reset_codes[i]
       /\ \A code \in Codes, i \in 1..Len(reset_codes) :
            (/\ last.op = "forgot_password"
             /\ last.status # 404
             /\ reset_codes[i].identifier # last.arg
             /\ Resolved(users, reset_codes[i].identifier)
                   = Resolved(users, last.arg)
             /\ reset_codes[i].code = code
             /\ code # last.out
             /\ now <= reset_codes[i].expires
             /\ verify_code(code))
              => /\ last'.status = 200
                 /\ last'.out = reset_codes[i].identifier
      ]_vars

\* one account, two attempts: the earlier code verified after the later
\* request
C30_Witness ==
    /\ last.op = "verify_code"
    /\ last.status = 200
    /\ Len(reset_codes) = 2
    /\ Len(users) = 1
    /\ Resolved(users, reset_codes[1].identifier) = {1}
    /\ Resolved(users, reset_codes[2].identifier) = {1}
    /\ reset_codes[1].identifier = last.out
    /\ reset_codes[1].expires < reset_codes[2].expires
    /\ ~reset_codes[2].verified

-----------------------------------------------------------------------------
(* Properties of concurrent reset_password requests (SpecResetConc) *)

\* C6: consuming a verified attempt is atomic: of two resetPassword requests
\* that run concurrently on the one verified attempt of the table, at most
\* one succeeds.
C6_ConsumeAtomic ==
    \A r1, r2 \in Requests :
        (/\ r1 # r2
         /\ reqs[r1].pc = "done"
         /\ reqs[r2].pc = "done"
         /\ reqs[r2].shared
         /\ reqs[r1].code_entry = reqs[r2].code_entry)
          => ~(reqs[r1].status = 200 /\ reqs[r2].status = 200)

\* C24: resetPassword removes only the attempt it found verified: an attempt
\* that a forgotPassword stored for the same identifier while the request
\* was suspended is still in the table when the request has completed.
C24_PopOnlyFoundAttempt ==
    [][\A r \in Requests :
          rp_pop(r)
            => \A i \in 1..Len(reset_codes) :
                  (/\ reset_codes[i].identifier = reqs[r].verified_identifier
                   /\ reset_codes[i] # reqs[r].code_entry)
                    => \E j \in 1..Len(reset_codes') :
                          reset_codes'[j] = reset_codes[i]]_vars

-----------------------------------------------------------------------------
(* Properties of the reset flow when accounts are removed (SpecResetGone) *)

\* C17: resetPassword consumes the verified attempt before it resolves the
\* account: when it fails with 404 "account not found", the verified
\* attempt it found is no longer in the table, and a resetPassword that
\* follows directly fails with "no verified code".
C17_ConsumedBeforeResolve ==
    [][\A np \in Passwords :
          /\ (reset_password(np) /\ last'.status = 404)
               => \A i \in 1..Len(reset_codes') :
                      reset_codes'[i].identifier #
                          reset_codes[FindVerified(reset_codes)].identifier
          /\ (last.op = "reset_password" /\ last.status = 404
                /\ Cardinality(Verified(reset_codes)) <= 1
                /\ reset_password(np))
               => /\ last'.status = 400
                  /\ last'.detail = "Aucun code verifie trouve"]_vars

-----------------------------------------------------------------------------
(* Properties of concurrent register and social_login requests
   (SpecAccountsConc) *)

\* C15: under every interleaving of register and socialLogin requests, each
\* account has an email or a phone, no two accounts share an email and no
\* two share a phone; two concurrent registers with one email create at
\* most one account.
C15_AccountsUnique ==
    /\ \A i \in 1..Len(users) : users[i].email # None \/ users[i].phone # None
    /\ \A i, j \in 1..Len(users) :
          i # j => /\ ~ColEq(users[i].email, users[j].email)
                   /\ ~ColEq(users[i].phone, users[j].phone)

\* two registers with the same email that both passed the duplicate check:
\* one created the account, the other was refused at the INSERT
C15_Witness ==
    /\ \A r \in Requests : regs[r].pc = "done" /\ regs[r].op = "register"
    /\ \E r1, r2 \in Requests :
          /\ regs[r1].status = 201
          /\ regs[r2].status = 500
          /\ regs[r1].email = regs[r2].email
          /\ regs[r1].email # None
    /\ last.detail = "Erreur interne : IntegrityError"
    /\ Len(users) = 1

\* C18: no operation blocks indefinitely, and while a socialLogin waits for
\* the provider's answer the other operations can still make progress: in
\* every state where a request waits for the provider and another request
\* slot is free, a new register or socialLogin call can be served.
C18_OthersProgressWhileWaiting ==
    \A r, o \in Requests :
        (regs[r].pc = "provider" /\ regs[o].pc \in {"idle", "done"})
          => ENABLED (RgBegin \/ SlBegin)

-----------------------------------------------------------------------------
(* Properties of the sweep (SpecSweep) *)

\* C25: cleanup_expired_codes removes exactly the attempts whose expiry is
\* earlier than now, pending or verified, returns how many it removed, and
\* leaves every other attempt, in its place, as it was.
C25_SweepRemovesExpired ==
    [][cleanup_expired_codes
         => /\ reset_codes' =
                 SelectSeq(reset_codes, LAMBDA e : ~(e.expires < now))
            /\ last'.out = Cardinality({i \in 1..Len(reset_codes) :
                                           reset_codes[i].expires < now})
            /\ users' = users]_vars

\* one attempt swept, one kept that is verified and at the instant of its
\* expiry
C25_Witness ==
    /\ last.op = "cleanup_expired_codes"
    /\ last.out = 1
    /\ Len(reset_codes) = 1
    /\ reset_codes[1].verified
    /\ reset_codes[1].expires = now

-----------------------------------------------------------------------------
(* Properties of logins after a reset (SpecResetLogin) *)

\* C27: after resetPassword has succeeded for an identifier, a login with
\* that identifier and the new password succeeds with a token of the
\* account, and a login with any other password, the old one included,
\* fails with 401 "invalid credentials".
C27_LoginAfterReset ==
    [][\A identifier \in Identifiers, pw \in Passwords :
          (/\ last.op = "reset_password"
           /\ last.status = 200
           /\ last.out = identifier
           /\ login(identifier, pw))
            => IF pw = last.arg
                 THEN /\ last'.status = 200
                      /\ last'.out \in issued'
                      /\ last'.out.user_id \in Resolved(users, identifier)
                 ELSE /\ last'.status = 401
                      /\ last'.detail = "Identifiant ou mot de passe incorrect"
                      /\ issued' = issued]_vars

\* a login accepted with a password no registration set
C27_Witness ==
    /\ last.op = "login"
    /\ last.status = 200
    /\ \E i \in Resolved(users, last.arg) :
          /\ users[i].hashed_password = hash_password("secret2")
          /\ last.out.user_id = i

====
